---- MODULE Spec2Model ----
(***************************************************************************)
(* Road-network routing engine: the Network and its node table, the rule   *)
(* set, the compiled-graph cache of NetworkAnalysis, weight validation and *)
(* the post-processing of od_cost_matrix.                                  *)
(*                                                                         *)
(* Geometry is one-dimensional: a point is an integer x-coordinate on the  *)
(* line y = 0, a network line is a pair of distinct coordinates (a, b),    *)
(* distance is |x - y|.  Weights are kept in thousandths of their unit so  *)
(* that the connector weights of the rule set stay integers.  A float that *)
(* may be NaN is the empty sequence (NaN) or a one-element sequence.       *)
(***************************************************************************)
EXTENDS Integers, Sequences, FiniteSets, TLC

VARIABLES network, rules, stored, startpoints, endpoints, graph, wkts,
          built, lastQ, ops, vw, od, rt, hl, pc

vars == <<network, rules, stored, startpoints, endpoints, graph, wkts,
          built, lastQ, ops, vw, od, rt, hl, pc>>

(* ---------------------------------------------------------------------- *)
(* Bounds                                                                  *)
(* ---------------------------------------------------------------------- *)
MaxOps == 3

MaxRows == 2

MaxCost == 2

MaxCount == 2

(* ---------------------------------------------------------------------- *)
(* Values                                                                  *)
(* ---------------------------------------------------------------------- *)
NaN == <<>>

None == <<>>

NoId == 0 - 1

Num(v) == <<v>>

(* float("inf"), as graph.distances reports an unreachable target *)
Inf == <<1, 0>>

IsNaN(x) == x = NaN

Truthy(x) == x # None /\ x[1] # 0

Abs(x) == IF x < 0 THEN 0 - x ELSE x

Range(s) == {s[i] : i \in DOMAIN s}

RECURSIVE SortedSeq(_)
SortedSeq(S) ==
    IF S = {} THEN <<>>
    ELSE LET m == CHOOSE x \in S : \A y \in S : x <= y
         IN <<m>> \o SortedSeq(S \ {m})

RECURSIVE Flatten(_)
Flatten(ss) == IF ss = <<>> THEN <<>> ELSE Head(ss) \o Flatten(Tail(ss))

SetMax(S) == CHOOSE x \in S : \A y \in S : y <= x

(* Python: a < b on floats; any comparison with NaN is False *)
Lt(x, y) == ~IsNaN(x) /\ ~IsNaN(y) /\ x[1] < y[1]

Ge0(x) == ~IsNaN(x) /\ x[1] >= 0

(* Python builtin min(list): keeps the first element unless a later one   *)
(* compares smaller                                                       *)
RECURSIVE PyMinFrom(_, _)
PyMinFrom(m, s) ==
    IF s = <<>> THEN m
    ELSE PyMinFrom(IF Lt(Head(s), m) THEN Head(s) ELSE m, Tail(s))

PyMin(s) == PyMinFrom(Head(s), Tail(s))

(* geom.wkt of a point and of a line *)
PointWkt(p) == <<"POINT", p, 0>>

LineWkt(r) == <<"LINESTRING", r.a, 0, r.b, 0>>

WktList(pts) == [i \in DOMAIN pts |-> PointWkt(pts[i])]

(* ---------------------------------------------------------------------- *)
(* Network: rows of the edge table and the node table                      *)
(* ---------------------------------------------------------------------- *)
Length(r) == Abs(r.a - r.b)

Row(a, b, minutes, cost) ==
    [a |-> a, b |-> b, source |-> NoId, target |-> NoId,
     w |-> [minutes |-> minutes, cost |-> cost], connected |-> NaN]

EndpointSet(gdf) == {gdf[i].a : i \in DOMAIN gdf} \cup {gdf[i].b : i \in DOMAIN gdf}

(* node id of a coordinate in a node table: ids are 0..n-1 in sorted order *)
NodeIdOf(nodes, c) == (CHOOSE i \in DOMAIN nodes : nodes[i] = c) - 1

NodeIds(nodes) == {i - 1 : i \in DOMAIN nodes}

(* make_node_ids: unique endpoints, sorted, numbered 0..n-1; source and   *)
(* target written per edge by lookup                                       *)
make_node_ids(gdf) ==
    LET nodes == SortedSeq(EndpointSet(gdf))
    IN [gdf |-> [i \in DOMAIN gdf |->
                    [gdf[i] EXCEPT !.source = NodeIdOf(nodes, gdf[i].a),
                                   !.target = NodeIdOf(nodes, gdf[i].b)]],
        nodes |-> nodes]

(* Network.make_node_ids: self.gdf, self._nodes = make_node_ids(self.gdf) *)
NetMakeNodeIds(nw) ==
    LET r == make_node_ids(nw.gdf)
    IN [nw EXCEPT !.gdf = r.gdf, !.nodes = r.nodes]

nodes_are_up_to_date(nw) ==
    /\ \A i \in DOMAIN nw.gdf : nw.gdf[i].source \in NodeIds(nw.nodes)
    /\ \A i \in DOMAIN nw.gdf : nw.gdf[i].target \in NodeIds(nw.nodes)

update_nodes_if(nw) ==
    IF nodes_are_up_to_date(nw) THEN nw ELSE NetMakeNodeIds(nw)

(* get_largest_component(gdf): column connected = 1 on the rows of the  *)
(* largest connected component, 0 elsewhere                               *)
RECURSIVE Component(_, _)
Component(S, gdf) ==
    LET T == S \cup {gdf[i].b : i \in {k \in DOMAIN gdf : gdf[k].a \in S}}
               \cup {gdf[i].a : i \in {k \in DOMAIN gdf : gdf[k].b \in S}}
    IN IF T = S THEN S ELSE Component(T, gdf)

LargestComponent(gdf) ==
    LET comp(c) == Component({c}, gdf)
        best == {c \in EndpointSet(gdf) :
                    \A e \in EndpointSet(gdf) : Cardinality(comp(e)) <= Cardinality(comp(c))}
    IN IF gdf = <<>> THEN {} ELSE comp(CHOOSE c \in best : \A e \in best : c <= e)

get_largest_component(gdf) ==
    LET big == LargestComponent(gdf)
    IN [i \in DOMAIN gdf |->
           [gdf[i] EXCEPT !.connected = IF gdf[i].a \in big THEN Num(1) ELSE Num(0)]]

KeepConnected(gdf) == SelectSeq(gdf, LAMBDA r : r.connected = Num(1))

(* Network.remove_isolated *)
remove_isolated(nw) ==
    LET n1 == update_nodes_if(nw)
        n2 == IF "connected" \notin n1.columns
              THEN [n1 EXCEPT !.gdf = get_largest_component(n1.gdf),
                              !.columns = @ \cup {"connected"}]
              ELSE n1
    IN [n2 EXCEPT !.gdf = KeepConnected(n2.gdf)]

(* Network.get_largest_component(remove) *)
net_get_largest_component(nw, remove) ==
    LET n1 == update_nodes_if(nw)
        n2 == [n1 EXCEPT !.gdf = get_largest_component(n1.gdf),
                         !.columns = @ \cup {"connected"}]
    IN IF remove THEN NetMakeNodeIds([n2 EXCEPT !.gdf = KeepConnected(n2.gdf)])
       ELSE n2

(* degree of a coordinate: occurrences among the line endpoints *)
Degree(gdf, c) ==
    Cardinality({i \in DOMAIN gdf : gdf[i].a = c}) + Cardinality({i \in DOMAIN gdf : gdf[i].b = c})

Deadends(gdf) == {c \in EndpointSet(gdf) : Degree(gdf, c) = 1}

(* the nearest other dead-ends of dead-end c (several on a distance tie) *)
NearestDeadends(gdf, c) ==
    {q \in Deadends(gdf) \ {c} :
        \A e \in Deadends(gdf) \ {c} : Abs(q - c) <= Abs(e - c)}

(* _find_holes_deadends(nodes, max_distance): near[c] is the neighbour    *)
(* the index returned for dead-end c; a line c -> near[c] where the       *)
(* distance is below max_distance                                         *)
find_holes_deadends(gdf, max_distance, near) ==
    IF Cardinality(Deadends(gdf)) <= 1 THEN <<>>
    ELSE LET ds == SortedSeq(Deadends(gdf))
         IN Flatten([i \in DOMAIN ds |->
                IF Abs(near[ds[i]] - ds[i]) < max_distance
                THEN <<[a |-> ds[i], b |-> near[ds[i]]]>> ELSE <<>>])

(* close_network_holes_to_deadends(gdf, max_distance) *)
close_network_holes_to_deadends(gdf, max_distance, near) ==
    LET m   == make_node_ids(gdf)
        new == find_holes_deadends(gdf, max_distance, near)
    IN m.gdf \o [i \in DOMAIN new |->
                    [a |-> new[i].a, b |-> new[i].b,
                     source |-> NodeIdOf(m.nodes, new[i].a),
                     target |-> NodeIdOf(m.nodes, new[i].b),
                     w |-> [minutes |-> NaN, cost |-> NaN], connected |-> NaN]]

(* Network.close_network_holes(max_dist, deadends_only=True) *)
close_network_holes(nw, max_dist, near) ==
    LET n1 == update_nodes_if(nw)
    IN [n1 EXCEPT !.gdf = close_network_holes_to_deadends(n1.gdf, max_dist, near)]

(* ---------------------------------------------------------------------- *)
(* NetworkAnalysisRules                                                    *)
(* ---------------------------------------------------------------------- *)
Rules(weight, tol, factor, split, mult, kmh) ==
    [weight |-> weight, search_tolerance |-> tol, search_factor |-> factor,
     split_lines |-> split, nodedist_multiplier |-> mult, nodedist_kmh |-> kmh]

(* _update_rules: the rules stored as separate (underscore) attributes *)
update_rules(r) == r

(* _rules_have_changed(self): r the public fields, s the stored ones.     *)
(* The last comparison of the source reads the stored field on both sides *)
rules_have_changed(r, s) ==
    \/ r.weight # s.weight
    \/ r.search_factor # s.search_factor
    \/ r.search_tolerance # s.search_tolerance
    \/ r.split_lines # s.split_lines
    \/ r.nodedist_multiplier # s.nodedist_multiplier
    \/ s.nodedist_kmh # s.nodedist_kmh

(* substring tests of _validate_weight on the weight names of the model *)
HasMeter(w) == w = "meters"

HasMetre(w) == w = "metres"

HasMinut(w) == w = "minutes"

ColValues(gdf, col) == [i \in DOMAIN gdf |-> gdf[i].w[col]]

check_for_nans(gdf, col) ==
    LET isna(r) == IsNaN(r.w[col])
    IN IF \A i \in DOMAIN gdf : isna(gdf[i])
       THEN [raises |-> "ValueError", gdf |-> gdf, warned |-> FALSE]
       ELSE [raises |-> "",
             gdf |-> SelectSeq(gdf, LAMBDA r : ~isna(r)),
             warned |-> \E i \in DOMAIN gdf : isna(gdf[i])]

check_for_negative_values(gdf, col) ==
    LET neg(r) == Lt(r.w[col], Num(0))
    IN [gdf |-> SelectSeq(gdf, LAMBDA r : Ge0(r.w[col])),
        warned |-> \E i \in DOMAIN gdf : neg(gdf[i])]

(* _validate_weight without the two tests of nodedist_kmh and            *)
(* nodedist_multiplier                                                    *)
validate_weight_without_conflict_tests(r, columns, unitMeters, gdf) ==
    LET res(raises, weight, g, warned) ==
            [raises |-> raises, weight |-> weight, gdf |-> g, warned |-> warned]
    IN
    IF HasMeter(r.weight) \/ (HasMetre(r.weight) /\ unitMeters)
    THEN res("", r.weight, gdf, FALSE)
    ELSE IF r.weight = "min" \/ (HasMinut(r.weight) /\ "minutes" \in columns)
    THEN IF "minutes" \in columns
         THEN res("", "minutes", gdf, FALSE)
         ELSE res("KeyError", "minutes", gdf, FALSE)
    ELSE IF r.weight \in columns
    THEN LET n == check_for_nans(gdf, r.weight)
             g == check_for_negative_values(n.gdf, r.weight)
         IN IF n.raises # ""
            THEN res(n.raises, r.weight, gdf, FALSE)
            ELSE res("", r.weight, g.gdf, n.warned \/ g.warned)
    ELSE IF HasMeter(r.weight) \/ HasMetre(r.weight)
    THEN res("ValueError", r.weight, gdf, FALSE)
    ELSE res("KeyError", r.weight, gdf, FALSE)

(* _validate_weight(self, gdf): unitMeters is unit_is_meters(gdf),       *)
(* columns the column names of gdf.  The result carries the exception    *)
(* raised (or ""), self.weight afterwards, the returned table, and       *)
(* whether a warning was issued.                                          *)
validate_weight(r, columns, unitMeters, gdf) ==
    LET res(raises, weight, g, warned) ==
            [raises |-> raises, weight |-> weight, gdf |-> g, warned |-> warned]
    IN
    IF HasMeter(r.weight) \/ (HasMetre(r.weight) /\ unitMeters)
    THEN IF Truthy(r.nodedist_kmh)
         THEN res("ValueError", r.weight, gdf, FALSE)
         ELSE res("", r.weight, gdf, FALSE)
    ELSE IF r.weight = "min" \/ (HasMinut(r.weight) /\ "minutes" \in columns)
    THEN IF Truthy(r.nodedist_multiplier)
         THEN res("ValueError", r.weight, gdf, FALSE)
         ELSE IF "minutes" \in columns
              THEN res("", "minutes", gdf, FALSE)
              ELSE res("KeyError", "minutes", gdf, FALSE)
    ELSE IF r.weight \in columns
    THEN LET n == check_for_nans(gdf, r.weight)
             g == check_for_negative_values(n.gdf, r.weight)
         IN IF n.raises # ""
            THEN res(n.raises, r.weight, gdf, FALSE)
            ELSE res("", r.weight, g.gdf, n.warned \/ g.warned)
    ELSE IF HasMeter(r.weight) \/ HasMetre(r.weight)
    THEN res("ValueError", r.weight, gdf, FALSE)
    ELSE res("KeyError", r.weight, gdf, FALSE)

(* gdf[weight] after validation: the line length for meters/metres, the  *)
(* named column otherwise                                                *)
WeightOf(row, weight) ==
    IF HasMeter(weight) \/ HasMetre(weight) THEN Num(1000 * Length(row))
    ELSE row.w[weight]

(* ---------------------------------------------------------------------- *)
(* Points: origins and destinations of one query                           *)
(* ---------------------------------------------------------------------- *)
NoPoints == [set |-> FALSE, pts |-> <<>>, ids |-> <<>>]

(* StartPoints(points, temp_idx_start) / EndPoints(points, temp_idx_start):*)
(* temporary ids temp_idx_start, temp_idx_start + 1, ...                   *)
Points(pts, temp_idx_start) ==
    [set |-> TRUE, pts |-> pts,
     ids |-> [i \in DOMAIN pts |-> temp_idx_start + i - 1]]

(* connector weight of the rule set for a point-to-node distance *)
connector_weight(r, dist) ==
    IF Truthy(r.nodedist_multiplier) THEN Num(1000 * dist * r.nodedist_multiplier[1])
    ELSE IF Truthy(r.nodedist_kmh) THEN Num((60 * dist) \div r.nodedist_kmh[1])
    ELSE Num(0)

(* the window without search_factor: the nearest nodes only, within      *)
(* search_tolerance                                                       *)
in_window_nearest_only(r, p, nodes, j) ==
    /\ Abs(p - nodes[j]) <= r.search_tolerance
    /\ \A k \in DOMAIN nodes : Abs(p - nodes[j]) <= Abs(p - nodes[k])

(* attachment window of a point: the nodes within search_tolerance and   *)
(* within d*(1 + search_factor/100) + search_factor of the point          *)
in_window(r, p, nodes, j) ==
    LET dist(k) == Abs(p - nodes[k])
        dmin    == CHOOSE d \in {dist(k) : k \in DOMAIN nodes} :
                       \A k \in DOMAIN nodes : d <= dist(k)
    IN /\ dist(j) <= r.search_tolerance
       /\ 100 * dist(j) <= dmin * (100 + r.search_factor) + 100 * r.search_factor

(* Points.get_edges_and_weights(nodes, rules): edges point -> node for    *)
(* origins, node -> point for destinations                                *)
point_edges(points, nodes, r, isStart) ==
    LET one(i, j) ==
            IF in_window(r, points.pts[i], nodes, j)
            THEN <<[s |-> IF isStart THEN points.ids[i] ELSE j - 1,
                    t |-> IF isStart THEN j - 1 ELSE points.ids[i],
                    w |-> connector_weight(r, Abs(points.pts[i] - nodes[j]))]>>
            ELSE <<>>
        perPoint(i) == Flatten([j \in DOMAIN nodes |-> one(i, j)])
    IN Flatten([i \in DOMAIN points.pts |-> perPoint(i)])

(* ---------------------------------------------------------------------- *)
(* NetworkAnalysis: the compiled graph and its cache                       *)
(* ---------------------------------------------------------------------- *)
NoGraph == [set |-> FALSE, edges |-> <<>>, vs |-> {}]

(* get_edges_and_weights(self) *)
get_edges_and_weights(nw, r, sp, ep) ==
    LET base == [i \in DOMAIN nw.gdf |->
                    [s |-> nw.gdf[i].source, t |-> nw.gdf[i].target,
                     w |-> WeightOf(nw.gdf[i], r.weight)]]
        start == point_edges(sp, nw.nodes, r, TRUE)
    IN IF ~ep.set THEN base \o start
       ELSE base \o start \o point_edges(ep, nw.nodes, r, FALSE)

EdgeWeights(edges) == [i \in DOMAIN edges |-> edges[i].w]

(* make_graph(edges, weights, directed): "" and the graph, or the         *)
(* exception raised                                                       *)
make_graph(edges) ==
    IF edges = <<>>
    THEN [raises |-> "ValueError", graph |-> NoGraph]
    ELSE IF ~Ge0(PyMin(EdgeWeights(edges)))
    THEN [raises |-> "AssertionError", graph |-> NoGraph]
    ELSE [raises |-> "",
          graph |-> [set |-> TRUE, edges |-> edges,
                     vs |-> {edges[i].s : i \in DOMAIN edges}
                            \cup {edges[i].t : i \in DOMAIN edges}]]

(* add_missing_vertices(self) *)
add_missing_vertices(g, sp, ep) ==
    [g EXCEPT !.vs = @ \cup Range(sp.ids) \cup (IF ep.set THEN Range(ep.ids) ELSE {})]

(* points_have_changed without the comparison of the stored wkt list:    *)
(* only the temporary ids are looked up in the graph                      *)
points_have_changed_ids_only(w, g, points, what) ==
    IF what \notin DOMAIN w THEN "KeyError"
    ELSE IF ~(\A i \in DOMAIN points.ids : points.ids[i] \in g.vs) THEN "True"
    ELSE "False"

(* points_have_changed(self, points, what): "KeyError" when self.wkts has *)
(* no entry for what                                                      *)
points_have_changed(w, g, points, what) ==
    IF what \notin DOMAIN w THEN "KeyError"
    ELSE IF w[what] # WktList(points.pts) THEN "True"
    ELSE IF ~(\A i \in DOMAIN points.ids : points.ids[i] \in g.vs) THEN "True"
    ELSE "False"

(* graph_is_up_to_date(self): "True", "False" or "KeyError" *)
graph_is_up_to_date(g, w, r, s, sp, ep) ==
    IF ~g.set THEN "False"
    ELSE IF rules_have_changed(r, s) THEN "False"
    ELSE LET cs == points_have_changed(w, g, sp, "start")
         IN IF cs = "KeyError" THEN "KeyError"
            ELSE IF cs = "True" THEN "False"
            ELSE IF ~ep.set THEN "True"
            ELSE LET ce == points_have_changed(w, g, ep, "end")
                 IN IF ce = "KeyError" THEN "KeyError"
                    ELSE IF ce = "True" THEN "False"
                    ELSE "True"

(* update_point_wkts(self) *)
update_point_wkts(nw, sp, ep) ==
    LET net == [k \in {"network"} |-> [i \in DOMAIN nw.gdf |-> LineWkt(nw.gdf[i])]]
    IN IF ~sp.set THEN net
       ELSE IF ~ep.set THEN net @@ [k \in {"start"} |-> WktList(sp.pts)]
       ELSE net @@ [k \in {"start"} |-> WktList(sp.pts)]
                @@ [k \in {"end"} |-> WktList(ep.pts)]

(* what a graph was compiled from (history, not program state) *)
NoBuilt == [rules |-> Rules("", 0, 0, FALSE, None, None), gdf |-> <<>>,
            nodes |-> <<>>, o |-> <<>>, d |-> <<>>, hasD |-> FALSE,
            oIds |-> {}, dIds |-> {}, mutated |-> FALSE]

(* prepare_network_analysis(self, startpoints, endpoints): the attributes *)
(* of self afterwards, the exception raised (or "ok"), whether the graph  *)
(* was rebuilt, and the edge list handed to make_graph                    *)
prepare_network_analysis(o, d, hasD) ==
    LET v   == validate_weight(rules, network.columns, TRUE, network.gdf)
        r1  == [rules EXCEPT !.weight = v.weight]
        st(nw, sp, ep, g, w, s, outcome, rebuilt, handed) ==
            [network |-> nw, rules |-> r1, startpoints |-> sp, endpoints |-> ep,
             graph |-> g, wkts |-> w, stored |-> s, outcome |-> outcome,
             rebuilt |-> rebuilt, handed |-> handed]
    IN
    IF v.raises # ""
    THEN st(network, startpoints, endpoints, graph, wkts, stored, v.raises, FALSE, <<>>)
    ELSE
    LET nw1 == [network EXCEPT !.gdf = v.gdf] IN
    IF nw1.nodes = <<>>
    THEN st(nw1, startpoints, endpoints, graph, wkts, stored, "ValueError", FALSE, <<>>)
    ELSE
    LET sp == Points(o, SetMax(NodeIds(nw1.nodes)) + 1)
        ep == IF hasD THEN Points(d, SetMax(Range(sp.ids)) + 1)
              ELSE [NoPoints EXCEPT !.set = FALSE]
        up == graph_is_up_to_date(graph, wkts, r1, stored, sp, ep)
    IN
    IF up = "KeyError"
    THEN st(nw1, sp, ep, graph, wkts, stored, "KeyError", FALSE, <<>>)
    ELSE IF up = "True" /\ nodes_are_up_to_date(nw1)
    THEN st(nw1, sp, ep, graph, update_point_wkts(nw1, sp, ep), update_rules(r1),
            "ok", FALSE, <<>>)
    ELSE
    LET nw2   == update_nodes_if(nw1)
        edges == get_edges_and_weights(nw2, r1, sp, ep)
        mg    == make_graph(edges)
    IN
    IF mg.raises # ""
    THEN st(nw2, sp, ep, graph, wkts, stored, mg.raises, FALSE, edges)
    ELSE st(nw2, sp, ep, add_missing_vertices(mg.graph, sp, ep),
            update_point_wkts(nw2, sp, ep), update_rules(r1), "ok", TRUE, edges)

(* ---------------------------------------------------------------------- *)
(* Inputs of the engine model                                              *)
(* ---------------------------------------------------------------------- *)
GoodRows == <<Row(0, 1, Num(1000), Num(1000)), Row(1, 2, Num(1000), Num(1000)),
              Row(4, 5, Num(1000), Num(1000))>>

NanRows == [GoodRows EXCEPT ![2].w.minutes = NaN, ![3].w.cost = NaN]

NegRows == [GoodRows EXCEPT ![3].w.minutes = Num(0 - 1000)]

(* the networks and weights an engine is constructed with *)
InitInputs ==
    {<<GoodRows, "meters">>, <<NanRows, "minutes">>, <<NegRows, "minutes">>,
     <<NanRows, "cost">>}

OriginLists == {<<0, 3>>, <<3, 0>>}

DestinationLists == {<<0>>, <<0, 7>>}

WeightNames == {"meters", "minutes", "cost"}

Tolerances == {1, 2}

Factors == {0, 100}

Multipliers == {None, Num(1)}

Speeds == {None, Num(5)}

NewLines == {<<2, 3>>}

HoleDistances == {3}

NoQuery == [method |-> "", outcome |-> "", rebuilt |-> FALSE, fresh |-> FALSE,
            o |-> <<>>, d |-> <<>>, hasD |-> FALSE, same |-> FALSE,
            rulesDiffer |-> FALSE, netDiffer |-> FALSE, ptsDiffer |-> FALSE,
            handed |-> <<>>, mutated |-> FALSE]

NoVw == [phase |-> "off"]

NoOd == [phase |-> "off"]

NoRt == [phase |-> "off"]

NoHl == [phase |-> "off"]

NoPc == [phase |-> "off"]

(* Network.__init__ followed by NetworkAnalysis.__init__ *)
Init ==
    \E inp \in InitInputs :
        LET r0 == Rules(inp[2], 1, 0, FALSE, None, None)
            n0 == NetMakeNodeIds([gdf |-> inp[1], nodes |-> <<>>,
                                  columns |-> {"minutes", "cost"}])
            v  == validate_weight(r0, n0.columns, TRUE, n0.gdf)
            n1 == IF v.raises = "" THEN [n0 EXCEPT !.gdf = v.gdf] ELSE n0
            r1 == [r0 EXCEPT !.weight = v.weight]
        IN /\ network = n1
           /\ rules = r1
           /\ stored = update_rules(r1)
           /\ startpoints = NoPoints
           /\ endpoints = NoPoints
           /\ graph = NoGraph
           /\ wkts = update_point_wkts(n1, NoPoints, NoPoints)
           /\ built = NoBuilt
           /\ lastQ = NoQuery
           /\ ops = 0
           /\ vw = NoVw
           /\ od = NoOd
           /\ rt = NoRt
           /\ hl = NoHl
           /\ pc = NoPc

(* the edge table as far as a query result depends on it *)
EdgeKeys(gdf, weight) ==
    [i \in DOMAIN gdf |-> <<gdf[i].a, gdf[i].b, WeightOf(gdf[i], weight)>>]

Query(method, o, d, hasD) ==
    /\ \E p \in {prepare_network_analysis(o, d, hasD)} :
          /\ network' = p.network
          /\ rules' = p.rules
          /\ stored' = p.stored
          /\ startpoints' = p.startpoints
          /\ endpoints' = p.endpoints
          /\ graph' = p.graph
          /\ wkts' = p.wkts
          /\ built' = IF p.rebuilt
                      THEN [rules |-> p.rules, gdf |-> p.network.gdf,
                            nodes |-> p.network.nodes, o |-> o, d |-> d,
                            hasD |-> hasD, oIds |-> Range(p.startpoints.ids),
                            dIds |-> Range(p.endpoints.ids),
                            mutated |-> lastQ.mutated]
                      ELSE built
          /\ lastQ' = [method |-> method, outcome |-> p.outcome,
                       rebuilt |-> p.rebuilt, fresh |-> TRUE,
                       o |-> o, d |-> d, hasD |-> hasD,
                       same |-> /\ lastQ.fresh /\ lastQ.outcome = "ok"
                                /\ lastQ.method = method /\ lastQ.o = o
                                /\ lastQ.d = d /\ lastQ.hasD = hasD,
                       rulesDiffer |-> graph.set /\ rules # built.rules,
                       netDiffer |-> /\ graph.set
                                     /\ EdgeKeys(p.network.gdf, p.rules.weight)
                                          # EdgeKeys(built.gdf, built.rules.weight),
                       ptsDiffer |-> /\ graph.set
                                     /\ \/ o # built.o
                                        \/ hasD /\ built.hasD /\ d # built.d,
                       handed |-> p.handed, mutated |-> lastQ.mutated]
    /\ ops' = ops + 1
    /\ UNCHANGED <<vw, od, rt, hl, pc>>

od_cost_matrix ==
    /\ ops < MaxOps
    /\ \E o \in OriginLists, d \in DestinationLists : Query("od_cost_matrix", o, d, TRUE)

shortest_path ==
    /\ ops < MaxOps
    /\ \E o \in OriginLists, d \in DestinationLists : Query("shortest_path", o, d, TRUE)

service_area ==
    /\ ops < MaxOps
    /\ \E o \in OriginLists : Query("service_area", o, <<>>, FALSE)

(* the caller assigns a field of nwa.rules *)
SetRule ==
    /\ ops < MaxOps
    /\ \E r \in {[rules EXCEPT !.weight = x] : x \in WeightNames}
             \cup {[rules EXCEPT !.search_tolerance = x] : x \in Tolerances}
             \cup {[rules EXCEPT !.search_factor = x] : x \in Factors}
             \cup {[rules EXCEPT !.split_lines = x] : x \in BOOLEAN}
             \cup {[rules EXCEPT !.nodedist_multiplier = x] : x \in Multipliers}
             \cup {[rules EXCEPT !.nodedist_kmh = x] : x \in Speeds} :
          /\ r # rules
          /\ rules' = r
    /\ lastQ' = [lastQ EXCEPT !.fresh = FALSE]
    /\ ops' = ops + 1
    /\ UNCHANGED <<network, stored, startpoints, endpoints, graph, wkts, built, vw, od, rt, hl, pc>>

Mutate(nw) ==
    /\ network' = nw
    /\ lastQ' = [lastQ EXCEPT !.fresh = FALSE, !.mutated = TRUE]
    /\ ops' = ops + 1
    /\ UNCHANGED <<rules, stored, startpoints, endpoints, graph, wkts, built, vw, od, rt, hl, pc>>

RemoveIsolated ==
    /\ ops < MaxOps
    /\ \E nw \in {remove_isolated(network)} : Mutate(nw)

GetLargestComponent ==
    /\ ops < MaxOps
    /\ \E remove \in BOOLEAN :
       \E nw \in {net_get_largest_component(network, remove)} : Mutate(nw)

(* on a distance tie the neighbour search may return either neighbour:   *)
(* the dead-ends in hi get the one with the higher coordinate             *)
NearChoice(gdf, hi) ==
    [c \in Deadends(gdf) |->
        LET N == NearestDeadends(gdf, c)
        IN IF N = {} THEN c
           ELSE IF c \in hi THEN SetMax(N)
           ELSE CHOOSE q \in N : \A e \in N : q <= e]

CloseNetworkHoles ==
    /\ ops < MaxOps
    /\ \E md \in HoleDistances :
       \E ties \in {{c \in Deadends(network.gdf) :
                        Cardinality(NearestDeadends(network.gdf, c)) > 1}} :
       \E hi \in SUBSET ties :
       \E nw \in {close_network_holes(network, md, NearChoice(network.gdf, hi))} :
           Mutate(nw)

(* the caller appends a line to nwa.network.gdf; the new row has no node *)
(* ids yet                                                               *)
AddLine ==
    /\ ops < MaxOps
    /\ \E l \in NewLines :
        /\ \A i \in DOMAIN network.gdf : <<network.gdf[i].a, network.gdf[i].b>> # l
        /\ Mutate([network EXCEPT !.gdf = Append(@, Row(l[1], l[2], Num(1000), Num(1000)))])

Next ==
    \/ od_cost_matrix
    \/ shortest_path
    \/ service_area
    \/ SetRule
    \/ RemoveIsolated
    \/ GetLargestComponent
    \/ CloseNetworkHoles
    \/ AddLine

Spec == Init /\ [][Next]_vars

(* ---------------------------------------------------------------------- *)
(* Properties of the compiled-graph cache                                  *)
(* ---------------------------------------------------------------------- *)

(* C1: a query that completes after a rule field was changed since the   *)
(* graph was compiled has rebuilt the graph                               *)
C1_RuleChangeRebuilds ==
    (lastQ.outcome = "ok" /\ lastQ.rulesDiffer) => lastQ.rebuilt

(* C2: a query that completes after the edge table was modified since    *)
(* the graph was compiled has rebuilt the graph                           *)
C2_NetworkChangeRebuilds ==
    (lastQ.outcome = "ok" /\ lastQ.netDiffer) => lastQ.rebuilt

(* C3: the second of two identical query calls in a row, with nothing    *)
(* changed in between, does not rebuild the graph                         *)
C3_IdenticalCallReuses ==
    (lastQ.same /\ lastQ.outcome = "ok") => ~lastQ.rebuilt

C5_TempIdsDisjoint ==
    graph.set =>
        /\ built.oIds \cap built.dIds = {}
        /\ built.oIds \cap NodeIds(built.nodes) = {}
        /\ built.dIds \cap NodeIds(built.nodes) = {}

(* C6: after network mutations, the node table a graph is compiled with  *)
(* holds the source and target of every edge, and every node of it is an *)
(* endpoint of an edge still in the network                               *)
C6_NodesMatchEdges ==
    (graph.set /\ built.mutated) =>
        /\ \A i \in DOMAIN built.gdf :
              /\ built.gdf[i].source \in NodeIds(built.nodes)
              /\ built.gdf[i].target \in NodeIds(built.nodes)
        /\ \A n \in NodeIds(built.nodes) :
              \E i \in DOMAIN built.gdf :
                  built.gdf[i].source = n \/ built.gdf[i].target = n

(* C7: a compiled graph has only weights >= 0, and an edge list with a   *)
(* negative weight makes graph construction fail                          *)
C7_WeightsNonNegative ==
    /\ graph.set => \A i \in DOMAIN graph.edges : Ge0(graph.edges[i].w)
    /\ (\E i \in DOMAIN lastQ.handed : Lt(lastQ.handed[i].w, Num(0)))
          => lastQ.outcome = "AssertionError"

C7_NegativeFails ==
    (\E i \in DOMAIN lastQ.handed : Lt(lastQ.handed[i].w, Num(0)))
        => lastQ.outcome = "AssertionError"

(* ---------------------------------------------------------------------- *)
(* Weight validation on its own: any rule set against any small table      *)
(* ---------------------------------------------------------------------- *)
EngineIdle ==
    /\ network = [gdf |-> <<>>, nodes |-> <<>>, columns |-> {}]
    /\ rules = Rules("", 0, 0, FALSE, None, None)
    /\ stored = Rules("", 0, 0, FALSE, None, None)
    /\ startpoints = NoPoints
    /\ endpoints = NoPoints
    /\ graph = NoGraph
    /\ wkts = <<>>
    /\ built = NoBuilt
    /\ lastQ = NoQuery
    /\ ops = 0

EngineVars == <<network, rules, stored, startpoints, endpoints, graph, wkts,
                built, lastQ, ops>>

AllWeightNames == {"meters", "metres", "min", "minutes", "cost", "speed"}

ColumnValues == {NaN, Num(0 - 1), Num(0), Num(1)}

(* tables of 1..MaxRows unit-length lines; the columns minutes and cost   *)
(* (when present) hold the same drawn values                              *)
Tables ==
    UNION {[1..n -> {Row(0, 1, v, v) : v \in ColumnValues}] : n \in 1..MaxRows}

InitWeight ==
    /\ EngineIdle
    /\ pc = NoPc
    /\ od = NoOd
    /\ rt = NoRt
    /\ hl = NoHl
    /\ \E w \in AllWeightNames, cols \in SUBSET {"minutes", "cost"},
          unit \in BOOLEAN, mult \in Multipliers, kmh \in Speeds, t \in Tables :
          vw = [phase |-> "in", rules |-> Rules(w, 1, 0, FALSE, mult, kmh),
                columns |-> cols, unitMeters |-> unit, gdf |-> t,
                res |-> [raises |-> "", weight |-> w, gdf |-> <<>>, warned |-> FALSE]]

(* NetworkAnalysisRules._validate_weight applied to the table *)
ValidateWeight ==
    /\ vw.phase = "in"
    /\ vw' = [vw EXCEPT !.phase = "out",
                        !.res = validate_weight(vw.rules, vw.columns, vw.unitMeters, vw.gdf)]
    /\ UNCHANGED EngineVars
    /\ UNCHANGED <<od, rt, hl, pc>>

NextWeight == ValidateWeight

SpecWeight == InitWeight /\ [][NextWeight]_vars

(* C8: after weight validation every kept row has a non-NaN, non-negative *)
(* weight, and no valid row was dropped, whatever the weight spec         *)
C8_KeptWeightsValid ==
    (vw.phase = "out" /\ vw.res.raises = "") =>
        /\ \A i \in DOMAIN vw.res.gdf : Ge0(WeightOf(vw.res.gdf[i], vw.res.weight))
        /\ vw.res.gdf = SelectSeq(vw.gdf, LAMBDA r : Ge0(WeightOf(r, vw.res.weight)))

(* the part of C8 that holds: a named column other than minutes *)
C8_NamedColumnValid ==
    (vw.phase = "out" /\ vw.res.raises = "" /\ vw.res.weight = "cost") =>
        /\ \A i \in DOMAIN vw.res.gdf : Ge0(vw.res.gdf[i].w["cost"])
        /\ vw.res.gdf = SelectSeq(vw.gdf, LAMBDA r : Ge0(r.w["cost"]))
        /\ (vw.res.gdf # vw.gdf => vw.res.warned)

(* ---------------------------------------------------------------------- *)
(* _od_cost_matrix: from the distance matrix of the graph to the result    *)
(* ---------------------------------------------------------------------- *)
(* origins["temp_idx"] and destinations["temp_idx"]: the origins get the  *)
(* ids 1..n, the destinations the ids after them                          *)
OriginId(o, i) == i

DestinationId(o, j) == Len(o) + j

(* pandas rank() of a cost within its origin group, doubled: ties share  *)
(* the average of their positions                                         *)
Rank2(rows, r) ==
    LET grp == {i \in DOMAIN rows : rows[i].origin = r.origin}
    IN 2 * Cardinality({i \in grp : Lt(rows[i].cost, r.cost)})
       + Cardinality({i \in grp : rows[i].cost = r.cost}) + 1

(* _od_cost_matrix without the rowwise merge: all pairs are kept *)
od_cost_matrix_fn_all_pairs(o, d, dist, rowwise, cutoff, destination_count) ==
    IF rowwise /\ Len(o) # Len(d)
    THEN [raises |-> "ValueError", rows |-> <<>>]
    ELSE
    LET pair(i, j) == [origin |-> OriginId(o, i), destination |-> DestinationId(o, j),
                       cost |-> IF dist[i][j] = Inf THEN NaN ELSE dist[i][j],
                       wkt_ori |-> PointWkt(o[i]), wkt_des |-> PointWkt(d[j])]
        r1  == Flatten([i \in DOMAIN o |-> [j \in DOMAIN d |-> pair(i, j)]])
        r2  == IF Truthy(cutoff) THEN SelectSeq(r1, LAMBDA r : Lt(r.cost, cutoff)) ELSE r1
        r3  == IF Truthy(destination_count)
               THEN LET nn == SelectSeq(r2, LAMBDA r : ~IsNaN(r.cost))
                    IN SelectSeq(nn, LAMBDA r : Rank2(nn, r) <= 2 * destination_count[1])
               ELSE r2
    IN [raises |-> "",
        rows |-> [i \in DOMAIN r3 |->
                    [origin |-> r3[i].origin, destination |-> r3[i].destination,
                     cost |-> IF r3[i].wkt_ori = r3[i].wkt_des THEN Num(0) ELSE r3[i].cost]]]

(* _od_cost_matrix(graph, origins, destinations, weight, rowwise, cutoff,*)
(* destination_count): o and d are the point coordinates, dist the        *)
(* result of graph.distances                                              *)
od_cost_matrix_fn(o, d, dist, rowwise, cutoff, destination_count) ==
    IF rowwise /\ Len(o) # Len(d)
    THEN [raises |-> "ValueError", rows |-> <<>>]
    ELSE
    LET pair(i, j) == [origin |-> OriginId(o, i), destination |-> DestinationId(o, j),
                       cost |-> IF dist[i][j] = Inf THEN NaN ELSE dist[i][j],
                       wkt_ori |-> PointWkt(o[i]), wkt_des |-> PointWkt(d[j])]
        all == Flatten([i \in DOMAIN o |-> [j \in DOMAIN d |-> pair(i, j)]])
        r1  == IF rowwise
               THEN SelectSeq(all, LAMBDA r :
                        \E i \in DOMAIN o : r.origin = OriginId(o, i)
                                            /\ r.destination = DestinationId(o, i))
               ELSE all
        r2  == IF Truthy(cutoff) THEN SelectSeq(r1, LAMBDA r : Lt(r.cost, cutoff)) ELSE r1
        r3  == IF Truthy(destination_count)
               THEN LET nn == SelectSeq(r2, LAMBDA r : ~IsNaN(r.cost))
                    IN SelectSeq(nn, LAMBDA r : Rank2(nn, r) <= 2 * destination_count[1])
               ELSE r2
    IN [raises |-> "",
        rows |-> [i \in DOMAIN r3 |->
                    [origin |-> r3[i].origin, destination |-> r3[i].destination,
                     cost |-> IF r3[i].wkt_ori = r3[i].wkt_des THEN Num(0) ELSE r3[i].cost]]]

(* origins and destinations of the calls *)
OdPoints ==
    {<<(<<0>>), (<<0>>)>>, <<(<<0>>), (<<1, 0, 2>>)>>, <<(<<0, 1>>), (<<1, 0>>)>>,
     <<(<<0, 1>>), (<<0, 1>>)>>, <<(<<0, 1>>), (<<2>>)>>}

Distances == {Inf} \cup {Num(c) : c \in 0..MaxCost}

Cutoffs == {None} \cup {Num(c) : c \in 0..MaxCost}

Counts == {None} \cup {Num(k) : k \in 1..MaxCount}

InitOd ==
    /\ EngineIdle
    /\ pc = NoPc
    /\ vw = NoVw
    /\ rt = NoRt
    /\ hl = NoHl
    /\ \E p \in OdPoints, rowwise \in BOOLEAN, cutoff \in Cutoffs, k \in Counts :
       \E dist \in [DOMAIN p[1] -> [DOMAIN p[2] -> Distances]] :
          od = [phase |-> "in", o |-> p[1], d |-> p[2], dist |-> dist,
                rowwise |-> rowwise, cutoff |-> cutoff, destination_count |-> k,
                res |-> [raises |-> "", rows |-> <<>>]]

OdCostMatrix ==
    /\ od.phase = "in"
    /\ od' = [od EXCEPT !.phase = "out",
                        !.res = od_cost_matrix_fn(od.o, od.d, od.dist, od.rowwise,
                                                  od.cutoff, od.destination_count)]
    /\ UNCHANGED EngineVars
    /\ UNCHANGED <<vw, rt, hl, pc>>

NextOd == OdCostMatrix

SpecOd == InitOd /\ [][NextOd]_vars

OdDone == od.phase = "out" /\ od.res.raises = ""

(* C9: every pair of coordinate-equal points is reported with cost 0,    *)
(* whatever the distances, cutoff, destination_count and rowwise          *)
C9_CoincidentCostZero ==
    OdDone =>
        \A i \in DOMAIN od.o, j \in DOMAIN od.d :
            (od.o[i] = od.d[j] /\ (od.rowwise => i = j)) =>
                \E n \in DOMAIN od.res.rows :
                    /\ od.res.rows[n].origin = OriginId(od.o, i)
                    /\ od.res.rows[n].destination = DestinationId(od.o, j)
                    /\ od.res.rows[n].cost = Num(0)

(* the pairs a destination_count is applied to: paired (rowwise),        *)
(* reachable and under the cutoff                                         *)
Eligible(i) ==
    {j \in DOMAIN od.d :
        /\ od.rowwise => i = j
        /\ od.dist[i][j] # Inf
        /\ Truthy(od.cutoff) => Lt(od.dist[i][j], od.cutoff)}

(* destinations before j in the order by cost, then by destination id *)
Before(i, j) ==
    {e \in Eligible(i) :
        \/ Lt(od.dist[i][e], od.dist[i][j])
        \/ od.dist[i][e] = od.dist[i][j] /\ e < j}

(* C10: with destination_count = k each origin keeps the min(k, number   *)
(* of reachable destinations) cheapest ones, ties broken by destination  *)
(* id                                                                     *)
C10_KeepsCheapestK ==
    (OdDone /\ Truthy(od.destination_count)) =>
        \A i \in DOMAIN od.o :
            {od.res.rows[n].destination - Len(od.o) :
                n \in {m \in DOMAIN od.res.rows : od.res.rows[m].origin = OriginId(od.o, i)}}
            = {j \in Eligible(i) : Cardinality(Before(i, j)) < od.destination_count[1]}


(* a float cost is at most the cutoff *)
Le(x, y) == ~IsNaN(x) /\ ~IsNaN(y) /\ x[1] <= y[1]

(* C11: with cutoff = c (and no destination_count) every pair whose      *)
(* graph cost is at most c is in the result, and no returned row has a    *)
(* cost over c                                                            *)
C11_CutoffDropsOver ==
    (OdDone /\ od.cutoff # None /\ od.destination_count = None) =>
        /\ \A i \in DOMAIN od.o, j \in DOMAIN od.d :
              ((od.rowwise => i = j) /\ Le(od.dist[i][j], od.cutoff)
               /\ od.dist[i][j] # Inf) =>
                  \E n \in DOMAIN od.res.rows :
                      /\ od.res.rows[n].origin = OriginId(od.o, i)
                      /\ od.res.rows[n].destination = DestinationId(od.o, j)
        /\ \A n \in DOMAIN od.res.rows : ~Lt(od.cutoff, od.res.rows[n].cost)

MaxRoads == 3

MaxWeight == 2

MaxK == 2

MaxMult == 1

(* the row id of an edge, "{source}_{target}_{weight}" *)
SourceTargetWeight(source, target, weight) == <<source, target, weight>>

(* id.endswith("_0") *)
EndsWith_0(id) == id[3] = 0

(* a row of roads: a network edge with its id column *)
RoadRow(source, target, weight) ==
    [source |-> source, target |-> target, weight |-> weight,
     source_target_weight |-> SourceTargetWeight(source, target, weight)]

(* the query points: vertex id and the network node each is attached to *)
OriginNodes == <<[p |-> 10, n |-> 0]>>

DestinationNodes == <<[p |-> 20, n |-> 2], [p |-> 21, n |-> 1], [p |-> 22, n |-> 0]>>

(* the compiled graph: one edge per row of roads, then the connector     *)
(* edges origin -> node and node -> destination with weight cw            *)
RouteGraph(roads, cw) ==
    [i \in DOMAIN roads |->
        [s |-> roads[i].source, t |-> roads[i].target, w |-> roads[i].weight,
         source_target_weight |-> roads[i].source_target_weight]]
    \o [i \in DOMAIN OriginNodes |->
        [s |-> OriginNodes[i].p, t |-> OriginNodes[i].n, w |-> cw,
         source_target_weight |-> SourceTargetWeight(OriginNodes[i].p, OriginNodes[i].n, cw)]]
    \o [i \in DOMAIN DestinationNodes |->
        [s |-> DestinationNodes[i].n, t |-> DestinationNodes[i].p, w |-> cw,
         source_target_weight |->
             SourceTargetWeight(DestinationNodes[i].n, DestinationNodes[i].p, cw)]]

(* simple paths from v to d over the live edges W, as edge index lists *)
RECURSIVE PathsFrom(_, _, _, _, _)
PathsFrom(E, W, v, d, seen) ==
    IF v = d THEN {<<>>}
    ELSE UNION {{<<e>> \o p : p \in PathsFrom(E, W, E[e].t, d, seen \cup {E[e].t})} :
                   e \in {x \in W : E[x].s = v /\ E[x].t \notin seen}}

RECURSIVE PathWeight(_, _)
PathWeight(E, p) == IF p = <<>> THEN 0 ELSE E[Head(p)].w + PathWeight(E, Tail(p))

(* graph.get_shortest_paths(weights="weight", v, to, output="epath"):    *)
(* one path of least weight; which one on a tie is left open              *)
ShortestPaths(E, W, o, d) ==
    LET P == PathsFrom(E, W, o, d, {o})
    IN {p \in P : \A q \in P : PathWeight(E, p) <= PathWeight(E, q)}

(* _get_one_route(graph, ori_id, des_id): the possible returns, <<>> for *)
(* no path                                                                *)
get_one_route(E, W, o, d) ==
    IF ShortestPaths(E, W, o, d) = {} THEN {<<>>} ELSE ShortestPaths(E, W, o, d)

(* graph.distances for one pair: NaN (after the inf replacement) when    *)
(* there is no path                                                       *)
Distance(E, o, d) ==
    LET P == ShortestPaths(E, DOMAIN E, o, d)
    IN IF P = {} THEN NaN ELSE Num(PathWeight(E, CHOOSE p \in P : TRUE))

(* all ways to pick one element from each set of a sequence of sets *)
RECURSIVE Choices(_)
Choices(ss) ==
    IF ss = <<>> THEN {<<>>}
    ELSE {<<h>> \o t : h \in Head(ss), t \in Choices(Tail(ss))}

(* _create_line_id_df(source_target_weight, ori_id, des_id): the ids of  *)
(* the path without those ending in "_0"                                  *)
create_line_id_df(E, path) ==
    SelectSeq([i \in DOMAIN path |-> E[path[i]].source_target_weight],
              LAMBDA id : ~EndsWith_0(id))

(* _get_line_geometries: line_ids.join(road_mapper), the rows of roads   *)
(* (by position) joined to each line id                                   *)
get_line_geometries(line_ids, roads) ==
    Flatten([i \in DOMAIN line_ids |->
        SelectSeq([j \in DOMAIN roads |-> j],
                  LAMBDA j : roads[j].source_target_weight = line_ids[i])])

RECURSIVE SumWeights(_, _)
SumWeights(roads, js) ==
    IF js = <<>> THEN 0 ELSE roads[Head(js)].weight + SumWeights(roads, Tail(js))


(* _get_route(graph, weight, roads, od_pairs); routes[i] is what         *)
(* _get_one_route returned for od_pairs[i].  The result: whether the     *)
(* "No paths were found" warning was issued, and one row per pair with   *)
(* line ids, the weight summed over the joined rows of roads              *)
get_route_fn(E, roads, od_pairs, routes) ==
    LET found == SelectSeq([i \in DOMAIN od_pairs |-> i], LAMBDA i : routes[i] # <<>>)
        ids(i) == create_line_id_df(E, routes[i])
        kept  == SelectSeq(found, LAMBDA i : ids(i) # <<>>)
    IN IF found = <<>>
       THEN [raises |-> "", warned |-> TRUE, rows |-> <<>>]
       ELSE [raises |-> "", warned |-> FALSE,
             rows |-> [n \in DOMAIN kept |->
                 LET js == get_line_geometries(ids(kept[n]), roads)
                 IN [origin |-> od_pairs[kept[n]][1],
                     destination |-> od_pairs[kept[n]][2], k |-> 0,
                     weight |-> SumWeights(roads, js), lines |-> js]]]

(* Python: int(round(num / den, 0)), halves to the even neighbour *)
PyRound(num, den) ==
    LET q == num \div den
        r == num % den
    IN IF 2 * r < den THEN q
       ELSE IF 2 * r > den THEN q + 1
       ELSE IF q % 2 = 0 THEN q ELSE q + 1

(* n_edges_to_keep computed from the percentage itself instead of from  *)
(* its complement                                                         *)
n_edges_to_keep_of_percent(len, drop_middle_percent) ==
    LET n == PyRound(len * drop_middle_percent, 200)
    IN IF n = 0 THEN 1 ELSE n

(* n_edges_to_keep of _loop_k_routes for a path of len edges *)
n_edges_to_keep(len, drop_middle_percent) ==
    LET n == PyRound(len * (100 - drop_middle_percent), 200)
    IN IF n = 0 THEN 1 ELSE n

(* Python: s[a:b] *)
PySlice(s, a, b) ==
    LET norm(i) == IF i < 0 THEN (IF Len(s) + i < 0 THEN 0 ELSE Len(s) + i)
                   ELSE (IF i > Len(s) THEN Len(s) ELSE i)
    IN SubSeq(s, norm(a) + 1, norm(b))

(* graph.delete_edges(edge_tuples): for each (source, target) an edge    *)
(* between the two vertices goes; which one of parallel edges is left    *)
(* open.  The possible sets of live edges afterwards                      *)
RECURSIVE delete_edges(_, _, _)
delete_edges(E, W, path) ==
    IF path = <<>> THEN {W}
    ELSE UNION {delete_edges(E, W \ {e}, Tail(path)) :
                   e \in {x \in W : /\ E[x].s = E[Head(path)].s
                                    /\ E[x].t = E[Head(path)].t}}

(* _loop_k_routes(graph, ori_id, des_id, k, drop_middle_percent) from    *)
(* iteration i on, W the live edges of the working copy: the possible    *)
(* sequences of iterations                                                *)
RECURSIVE loop_k_routes(_, _, _, _, _, _, _)
loop_k_routes(E, W, o, d, i, k, drop_middle_percent) ==
    IF i > k THEN {<<>>}
    ELSE UNION {
        IF path = <<>>
        THEN {<<[k |-> i, found |-> FALSE, epath |-> <<>>, n_edges_to_keep |-> 0,
                 to_be_dropped |-> <<>>, before |-> W, after |-> W]>> \o rest :
                 rest \in loop_k_routes(E, W, o, d, i + 1, k, drop_middle_percent)}
        ELSE LET n    == n_edges_to_keep(Len(path), drop_middle_percent)
                 drop == PySlice(path, n, 0 - n)
             IN UNION {
                 {<<[k |-> i, found |-> TRUE, epath |-> path, n_edges_to_keep |-> n,
                     to_be_dropped |-> drop, before |-> W, after |-> W2]>> \o rest :
                     rest \in loop_k_routes(E, W2, o, d, i + 1, k, drop_middle_percent)} :
                 W2 \in delete_edges(E, W, drop)}
        : path \in get_one_route(E, W, o, d)}

(* _get_k_routes(graph, weight, roads, k, drop_middle_percent, od_pairs);*)
(* loops[i] is the run of _loop_k_routes for od_pairs[i]                  *)
get_k_routes_fn(E, roads, od_pairs, loops) ==
    LET its(i) == SelectSeq(loops[i], LAMBDA it : it.found)
        hasColumns == \E i \in DOMAIN od_pairs : its(i) # <<>>
        all == Flatten([i \in DOMAIN od_pairs |->
                   [n \in DOMAIN its(i) |->
                       [origin |-> od_pairs[i][1], destination |-> od_pairs[i][2],
                        k |-> its(i)[n].k,
                        ids |-> create_line_id_df(E, its(i)[n].epath)]]])
        kept == SelectSeq(all, LAMBDA r : r.ids # <<>>)
    IN IF od_pairs = <<>>
       THEN [raises |-> "", warned |-> TRUE, rows |-> <<>>]
       ELSE IF ~hasColumns
       THEN [raises |-> "AssertionError", warned |-> FALSE, rows |-> <<>>]
       ELSE [raises |-> "", warned |-> FALSE,
             rows |-> [n \in DOMAIN kept |->
                 LET js == get_line_geometries(kept[n].ids, roads)
                 IN [origin |-> kept[n].origin, destination |-> kept[n].destination,
                     k |-> kept[n].k, weight |-> SumWeights(roads, js), lines |-> js]]]

RECURSIVE SumSeq(_)
SumSeq(s) == IF s = <<>> THEN 0 ELSE Head(s) + SumSeq(Tail(s))

(* _get_route_frequencies(graph, roads, weight_df); the pairs are the    *)
(* index of weight_df, multiplier[i] its value for pair i                 *)
get_route_frequencies_fn(E, roads, od_pairs, multiplier, routes) ==
    LET found == SelectSeq([i \in DOMAIN od_pairs |-> i], LAMBDA i : routes[i] # <<>>)
        line_ids == Flatten([n \in DOMAIN found |->
                       [m \in DOMAIN routes[found[n]] |->
                           [source_target_weight |->
                                E[routes[found[n]][m]].source_target_weight,
                            multiplier |-> multiplier[found[n]]]]])
        summarised(id) ==
            SumSeq([n \in DOMAIN line_ids |->
                       IF line_ids[n].source_target_weight = id
                       THEN line_ids[n].multiplier ELSE 0])
        visited == SelectSeq([j \in DOMAIN roads |-> j], LAMBDA j :
                       \E n \in DOMAIN line_ids :
                           line_ids[n].source_target_weight = roads[j].source_target_weight)
    IN IF found = <<>>
       THEN [raises |-> "ValueError", warned |-> FALSE, rows |-> <<>>]
       ELSE [raises |-> "", warned |-> FALSE,
             rows |-> [n \in DOMAIN visited |->
                 [road |-> visited[n],
                  frequency |-> summarised(roads[visited[n]].source_target_weight)]]]


(* the candidate network edges between the nodes 0, 1, 2 *)
RoadRows ==
    {RoadRow(st[1], st[2], w) : st \in {<<0, 1>>, <<1, 2>>, <<0, 2>>}, w \in 0..MaxWeight}

RowKey(r) == 100 * r.source + 10 * r.target + r.weight

(* road tables of up to MaxRoads rows; a row may occur twice (parallel   *)
(* edges with the same source, target and weight)                         *)
RoadTables ==
    {t \in UNION {[1..n -> RoadRows] : n \in 1..MaxRoads} :
        \A i \in DOMAIN t : \A j \in DOMAIN t : i < j => RowKey(t[i]) <= RowKey(t[j])}

ConnectorWeights == {0, 1}

PairLists ==
    {<<(<<10, 20>>)>>, <<(<<10, 20>>), (<<10, 21>>)>>,
     <<(<<10, 20>>), (<<10, 21>>), (<<10, 22>>)>>}

Percents == {0 - 1, 0, 1, 50, 100, 101}

InitRoute ==
    /\ EngineIdle
    /\ pc = NoPc
    /\ vw = NoVw
    /\ od = NoOd
    /\ hl = NoHl
    /\ \E roads \in RoadTables, cw \in ConnectorWeights :
          rt = [phase |-> "in", op |-> "", roads |-> roads, cw |-> cw,
                E |-> RouteGraph(roads, cw), live |-> DOMAIN RouteGraph(roads, cw),
                od_pairs |-> <<>>, k |-> 0,
                drop_middle_percent |-> 0, multiplier |-> <<>>, routes |-> <<>>,
                loops |-> <<>>, res |-> [raises |-> "", warned |-> FALSE, rows |-> <<>>]]

GetRoute ==
    /\ rt.phase = "in"
    /\ \E od_pairs \in PairLists :
       \E routes \in Choices([i \in DOMAIN od_pairs |->
                     get_one_route(rt.E, DOMAIN rt.E, od_pairs[i][1], od_pairs[i][2])]) :
          rt' = [rt EXCEPT !.phase = "out", !.op = "get_route", !.od_pairs = od_pairs,
                           !.routes = routes,
                           !.res = get_route_fn(rt.E, rt.roads, od_pairs, routes)]
    /\ UNCHANGED EngineVars
    /\ UNCHANGED <<vw, od, hl, pc>>

(* the range check with 0 rejected *)
drop_middle_percent_in_range_open(p) == 0 < p /\ p <= 100

(* get_k_routes: the range of drop_middle_percent it accepts; the test   *)
(* of the repository passes 0 and 100 and expects ValueError for -1 and  *)
(* 101                                                                    *)
drop_middle_percent_in_range(p) == 0 <= p /\ p <= 100

(* no copy: the loop works on the graph object it was handed *)
graph_copy_same_object(g) == g

(* graph.copy() at the top of _loop_k_routes: a new graph object with the *)
(* edges of g                                                             *)
graph_copy(g) == <<"copy", g>>

(* the live edges of the graph object g after a run of _loop_k_routes on  *)
(* a working object that started with the edges live: changed only when   *)
(* the working object is g itself                                         *)
LiveAfter(g, live, run) ==
    IF graph_copy(g) = g /\ run # <<>> THEN run[Len(run)].after ELSE live

(* the for loop of _get_k_routes over od_pairs from pair i on, live the   *)
(* edges of the graph object handed in: the possible runs of              *)
(* _loop_k_routes per pair, and the edges of that object at the end       *)
RECURSIVE k_routes_runs(_, _, _, _, _, _)
k_routes_runs(E, live, od_pairs, i, k, drop_middle_percent) ==
    IF i > Len(od_pairs) THEN {[loops |-> <<>>, live |-> live]}
    ELSE UNION {
        {[loops |-> <<run>> \o r.loops, live |-> r.live] :
            r \in k_routes_runs(E, LiveAfter("graph", live, run), od_pairs, i + 1,
                                k, drop_middle_percent)}
        : run \in loop_k_routes(E, live, od_pairs[i][1], od_pairs[i][2], 1, k,
                                drop_middle_percent)}

GetKRoutes ==
    /\ rt.phase = "in"
    /\ \E od_pairs \in PairLists, k \in 1..MaxK, p \in Percents :
       \E runs \in (IF drop_middle_percent_in_range(p)
                    THEN k_routes_runs(rt.E, rt.live, od_pairs, 1, k, p)
                    ELSE {[loops |-> <<>>, live |-> rt.live]}) :
       \E loops \in {runs.loops} :
          rt' = [rt EXCEPT !.phase = "out", !.op = "get_k_routes", !.od_pairs = od_pairs,
                           !.k = k, !.drop_middle_percent = p, !.loops = loops,
                           !.live = runs.live,
                           !.res = IF drop_middle_percent_in_range(p)
                                   THEN get_k_routes_fn(rt.E, rt.roads, od_pairs, loops)
                                   ELSE [raises |-> "ValueError", warned |-> FALSE,
                                         rows |-> <<>>]]
    /\ UNCHANGED EngineVars
    /\ UNCHANGED <<vw, od, hl, pc>>

GetRouteFrequencies ==
    /\ rt.phase = "in"
    /\ \E od_pairs \in PairLists :
       \E multiplier \in [DOMAIN od_pairs -> 0..MaxMult] :
       \E routes \in Choices([i \in DOMAIN od_pairs |->
                     get_one_route(rt.E, DOMAIN rt.E, od_pairs[i][1], od_pairs[i][2])]) :
          rt' = [rt EXCEPT !.phase = "out", !.op = "get_route_frequencies",
                           !.od_pairs = od_pairs, !.multiplier = multiplier,
                           !.routes = routes,
                           !.res = get_route_frequencies_fn(rt.E, rt.roads, od_pairs,
                                                            multiplier, routes)]
    /\ UNCHANGED EngineVars
    /\ UNCHANGED <<vw, od, hl, pc>>

NextRoute == GetRoute \/ GetKRoutes \/ GetRouteFrequencies

SpecRoute == InitRoute /\ [][NextRoute]_vars


RouteDone(op) == rt.phase = "out" /\ rt.op = op /\ rt.res.raises = ""

(* C13: with zero-weight connector edges, the weight get_route reports   *)
(* for a pair equals the cost od_cost_matrix reports for it on the same  *)
(* graph                                                                  *)
C13_RouteWeightEqualsCost ==
    (RouteDone("get_route") /\ rt.cw = 0) =>
        \A n \in DOMAIN rt.res.rows :
            Num(rt.res.rows[n].weight)
                = Distance(rt.E, rt.res.rows[n].origin, rt.res.rows[n].destination)


(* C14: a pair without a path has no row in the result of get_route and  *)
(* a warning is issued, also when other pairs have a route                *)
C14_NoPathWarns ==
    RouteDone("get_route") =>
        \A i \in DOMAIN rt.od_pairs :
            rt.routes[i] = <<>> =>
                /\ ~\E n \in DOMAIN rt.res.rows :
                       /\ rt.res.rows[n].origin = rt.od_pairs[i][1]
                       /\ rt.res.rows[n].destination = rt.od_pairs[i][2]
                /\ rt.res.warned


(* the iterations of pair i that put a route into the result *)
Returned(i) ==
    {n \in DOMAIN rt.loops[i] :
        rt.loops[i][n].found /\ create_line_id_df(rt.E, rt.loops[i][n].epath) # <<>>}

(* C15: with drop_middle_percent > 0 the routes returned for one pair    *)
(* under different k have pairwise different edge sets                    *)
C15_KRoutesDiffer ==
    (RouteDone("get_k_routes") /\ rt.drop_middle_percent > 0) =>
        \A i \in DOMAIN rt.od_pairs :
            \A a \in Returned(i), b \in Returned(i) :
                a # b => Range(rt.loops[i][a].epath) # Range(rt.loops[i][b].epath)


(* the successful iterations of a get_k_routes call: <<pair, iteration>> *)
FoundIterations ==
    {pn \in UNION {{<<i, n>> : n \in DOMAIN rt.loops[i]} : i \in DOMAIN rt.od_pairs} :
        rt.loops[pn[1]][pn[2]].found}

(* q is x / 200 rounded to the nearest integer, a half to the even one *)
IsRounded(q, x) ==
    \/ Abs(200 * q - x) < 100
    \/ Abs(200 * q - x) = 100 /\ q % 2 = 0

(* the working copy after iteration it kept n edges at each end of the   *)
(* path and lost one edge per position in between, an edge between the   *)
(* same two vertices as the path's edge there                             *)
LostMiddle(it, n) ==
    LET len == Len(it.epath)
        mid == {m \in DOMAIN it.epath : n < m /\ m <= len - n}
        gone == it.before \ it.after
    IN /\ it.after \subseteq it.before
       /\ Cardinality(gone) = Cardinality(mid)
       /\ \A e \in gone : \E m \in mid :
              /\ rt.E[e].s = rt.E[it.epath[m]].s
              /\ rt.E[e].t = rt.E[it.epath[m]].t
       /\ \A m \in DOMAIN it.epath \ mid : it.epath[m] \in it.after

(* C16 as stated: (len * drop_middle_percent / 100) / 2 edges, rounded,  *)
(* minimum 1, are kept at each end of the path and the rest is deleted   *)
C16_KeepsPercentAtEnds ==
    RouteDone("get_k_routes") =>
        \A pn \in FoundIterations :
            LET it == rt.loops[pn[1]][pn[2]]
            IN \E q \in 0..Len(it.epath) :
                  /\ IsRounded(q, Len(it.epath) * rt.drop_middle_percent)
                  /\ LostMiddle(it, IF q = 0 THEN 1 ELSE q)

(* C16 amended: (len - len * drop_middle_percent / 100) / 2 edges,       *)
(* rounded half to even, minimum 1, are kept at each end of the path;    *)
(* the edges in between, drop_middle_percent percent of the path, are    *)
(* deleted from the working copy                                          *)
C16_KeepsComplementAtEnds ==
    RouteDone("get_k_routes") =>
        \A pn \in FoundIterations :
            LET it == rt.loops[pn[1]][pn[2]]
            IN \E q \in 0..Len(it.epath) :
                  /\ IsRounded(q, Len(it.epath) * (100 - rt.drop_middle_percent))
                  /\ LostMiddle(it, IF q = 0 THEN 1 ELSE q)

C16_Witness ==
    /\ RouteDone("get_k_routes")
    /\ rt.drop_middle_percent = 100
    /\ \E pn \in FoundIterations :
          /\ Len(rt.loops[pn[1]][pn[2]].epath) = 4
          /\ Cardinality(rt.loops[pn[1]][pn[2]].before \ rt.loops[pn[1]][pn[2]].after) = 2


KRoutesCalled == rt.phase = "out" /\ rt.op = "get_k_routes"

PairsUsing(j) == {i \in DOMAIN rt.od_pairs : j \in Range(rt.routes[i])}

RECURSIVE SumOver(_, _)
SumOver(f, S) ==
    IF S = {} THEN 0
    ELSE LET x == CHOOSE y \in S : TRUE IN f[x] + SumOver(f, S \ {x})

(* C18: get_route_frequencies returns exactly the network edges on at    *)
(* least one found route, each with the sum of the multipliers of the    *)
(* pairs whose route uses it, and every returned frequency is > 0         *)
C18_FrequencyIsMultiplierSum ==
    RouteDone("get_route_frequencies") =>
        /\ {rt.res.rows[n].road : n \in DOMAIN rt.res.rows}
              = {j \in DOMAIN rt.roads : PairsUsing(j) # {}}
        /\ \A n \in DOMAIN rt.res.rows :
              /\ rt.res.rows[n].frequency
                    = SumOver(rt.multiplier, PairsUsing(rt.res.rows[n].road))
              /\ rt.res.rows[n].frequency > 0


(* ---------------------------------------------------------------------- *)
(* Closing holes from dead-ends to any node, under a distance and an      *)
(* angle rule.  Points are pairs <<x, y>> on a small grid; a bearing      *)
(* arctan2(dx, dy) is held as the direction <<dx, dy>> it belongs to, and *)
(* bearings are compared exactly.  On this grid the comparison agrees     *)
(* with the floating point one for the angles 0, 90 and 180.              *)
(* ---------------------------------------------------------------------- *)
GridX == 3

GridY == 1

MaxLines == 2

GridPoints == (0..GridX) \X (0..GridY)

(* squared euclidean distance *)
Dist2(p, q) == (q[1] - p[1]) * (q[1] - p[1]) + (q[2] - p[2]) * (q[2] - p[2])

(* get_angle(array_a, array_b): degrees(arctan2(dx, dy)) of one row,      *)
(* held as <<dx, dy>>                                                     *)
get_angle(array_a, array_b) == <<array_b[1] - array_a[1], array_b[2] - array_a[2]>>

(* np.abs of a bearing: |arctan2(dx, dy)| = arctan2(|dx|, dy), a bearing  *)
(* in 0..180                                                              *)
AbsAngle(v) == <<Abs(v[1]), v[2]>>

Dot(u, v) == u[1] * v[1] + u[2] * v[2]

Cross(u, v) == u[1] * v[2] - u[2] * v[1]

(* the angle between the directions u and v is at most deg degrees, for   *)
(* deg one of 0, 90, 180                                                  *)
AngleAtMost(u, v, deg) ==
    CASE deg = 0   -> Cross(u, v) = 0 /\ Dot(u, v) > 0
      [] deg = 90  -> Dot(u, v) >= 0
      [] deg = 180 -> TRUE

(* angles_difference <= max_angle, where angles_difference is             *)
(* abs(abs(angle p_other -> p) - abs(angle p -> q)): two bearings in      *)
(* 0..180 differ by the angle between their directions                    *)
angles_difference_le(incoming, outgoing, max_angle) ==
    AngleAtMost(AbsAngle(incoming), AbsAngle(outgoing), max_angle)

(* lines["sorted"] and drop_duplicates("sorted"): of the rows joining the *)
(* same two nodes the first is kept                                       *)
drop_duplicates_sorted(lines) ==
    LET keep(i) == \A j \in 1..(i - 1) :
                      {lines[j].a, lines[j].b} # {lines[i].a, lines[i].b}
    IN Flatten([i \in DOMAIN lines |-> IF keep(i) THEN <<lines[i]>> ELSE <<>>])

(* make_node_ids: n_source and n_target, the number of line ends at the   *)
(* source and the target node of a row                                    *)
WithNodeCounts(gdf) ==
    [i \in DOMAIN gdf |->
        [a |-> gdf[i].a, b |-> gdf[i].b,
         n_source |-> Degree(gdf, gdf[i].a), n_target |-> Degree(gdf, gdf[i].b)]]

(* deadends: the rows with n_source == 1 (wkt the source end) followed by *)
(* the rows with n_target == 1 (wkt the target end)                       *)
DeadendRows(lines) ==
    Flatten([i \in DOMAIN lines |->
                IF lines[i].n_source = 1
                THEN <<[wkt |-> lines[i].a, wkt_other_end |-> lines[i].b]>> ELSE <<>>])
    \o Flatten([i \in DOMAIN lines |->
                IF lines[i].n_target = 1
                THEN <<[wkt |-> lines[i].b, wkt_other_end |-> lines[i].a]>> ELSE <<>>])

(* k_nearest_neighbors for one query point: the nodes S by increasing     *)
(* distance from p, in any order where distances tie                      *)
RECURSIVE NeighbourOrders(_, _)
NeighbourOrders(p, S) ==
    IF S = {} THEN {<<>>}
    ELSE UNION {{<<q>> \o t : t \in NeighbourOrders(p, S \ {q})} :
                   q \in {n \in S : \A m \in S : Dist2(p, n) <= Dist2(p, m)}}

(* the condition of iteration i for dead-end row d whose i-th neighbour   *)
(* is q: the distance rule, and the angle rule with NaN (never accepted)  *)
(* where q is the other end of the dead-end line                          *)
condition(d, q, max_distance, max_angle) ==
    /\ Dist2(d.wkt, q) <= max_distance * max_distance
    /\ q # d.wkt_other_end
    /\ angles_difference_le(get_angle(d.wkt_other_end, d.wkt),
                            get_angle(d.wkt, q), max_angle)

(* the loop over the neighbour columns i (0-based) up to k - 1; new is    *)
(* the list of (source, target) found so far                              *)
RECURSIVE close_holes_loop(_, _, _, _, _, _, _)
close_holes_loop(deadends, indices, max_distance, max_angle, i, k, new) ==
    IF i >= k THEN new
    ELSE LET these(n) == indices[n][i + 1]
             new_sources == {new[n].a : n \in DOMAIN new}
             found == Flatten([n \in DOMAIN deadends |->
                         IF /\ condition(deadends[n], these(n), max_distance, max_angle)
                            /\ deadends[n].wkt \notin new_sources
                         THEN <<[a |-> deadends[n].wkt, b |-> these(n)]>>
                         ELSE <<>>])
         IN IF \A n \in DOMAIN deadends : deadends[n].wkt_other_end = these(n)
            THEN close_holes_loop(deadends, indices, max_distance, max_angle,
                                  i + 1, k, new)
            ELSE IF found = <<>> THEN new
            ELSE close_holes_loop(deadends, indices, max_distance, max_angle,
                                  i + 1, k, new \o found)

Min(a, b) == IF a <= b THEN a ELSE b

(* _close_holes_all_lines(lines, nodes, max_distance, max_angle,          *)
(* idx_start): indices[n] is the neighbour row of dead-end n              *)
close_holes_all_lines(lines, nodes, max_distance, max_angle, idx_start, indices) ==
    IF Len(DeadendRows(lines)) <= 1 THEN <<>>
    ELSE close_holes_loop(DeadendRows(lines), indices, max_distance, max_angle,
                          idx_start, Min(Cardinality(nodes), 50), <<>>)

(* the neighbour tables k_nearest_neighbors can return for the dead-ends  *)
(* of lines                                                               *)
NeighbourTables(lines, nodes) ==
    Choices([n \in DOMAIN DeadendRows(lines) |->
                NeighbourOrders(DeadendRows(lines)[n].wkt, nodes)])

(* close_network_holes(gdf, max_distance, max_angle): the input lines     *)
(* followed by the new lines, marked by the hole column                   *)
close_network_holes_all(gdf, max_distance, max_angle, indices) ==
    LET lines == WithNodeCounts(gdf)
        new_lines == close_holes_all_lines(drop_duplicates_sorted(lines),
                         EndpointSet(gdf), max_distance, max_angle, 1, indices)
    IN [i \in DOMAIN gdf |-> [a |-> gdf[i].a, b |-> gdf[i].b, hole |-> 0]]
       \o [i \in DOMAIN new_lines |->
              [a |-> new_lines[i].a, b |-> new_lines[i].b, hole |-> 1]]

Segments ==
    {s \in {[a |-> p, b |-> q] : p \in GridPoints, q \in GridPoints} : s.a # s.b}

(* a line p -> q, the same line reversed, and a line q -> r: r is the     *)
(* only dead-end                                                          *)
LoopTables ==
    {<<[a |-> p, b |-> q], [a |-> q, b |-> p], [a |-> q, b |-> r]>> :
        p \in GridPoints, q \in GridPoints, r \in GridPoints}

LineTables ==
    UNION {[1..n -> Segments] : n \in 1..MaxLines}
        \cup {t \in LoopTables : Cardinality({t[1].a, t[1].b, t[3].b}) = 3}

MaxDistances == {1, 2, 4}

MaxAngles == {0, 90, 180}

InitHoles ==
    /\ EngineIdle
    /\ pc = NoPc
    /\ vw = NoVw
    /\ od = NoOd
    /\ rt = NoRt
    /\ \E gdf \in LineTables, max_distance \in MaxDistances, max_angle \in MaxAngles :
          hl = [phase |-> "in", gdf |-> gdf, max_distance |-> max_distance,
                max_angle |-> max_angle, res |-> <<>>]

CloseNetworkHolesAll ==
    /\ hl.phase = "in"
    /\ \E indices \in NeighbourTables(drop_duplicates_sorted(WithNodeCounts(hl.gdf)),
                                      EndpointSet(hl.gdf)) :
          hl' = [hl EXCEPT !.phase = "out",
                           !.res = close_network_holes_all(hl.gdf, hl.max_distance,
                                                           hl.max_angle, indices)]
    /\ UNCHANGED EngineVars
    /\ UNCHANGED <<vw, od, rt, pc>>

NextHoles == CloseNetworkHolesAll

SpecHoles == InitHoles /\ [][NextHoles]_vars

(* the synthetic edges of the result *)
HoleLines == SelectSeq(hl.res, LAMBDA r : r.hole = 1)

(* C19: close_network_holes adds at most one synthetic edge starting at   *)
(* any dead-end, and for two dead-ends p and q it never adds both an edge *)
(* p -> q and an edge q -> p.                                             *)
C19_OneClosurePerGap ==
    hl.phase = "out" =>
        /\ \A m, n \in DOMAIN HoleLines : HoleLines[m].a = HoleLines[n].a => m = n
        /\ \A m, n \in DOMAIN HoleLines :
              ~(HoleLines[m].a = HoleLines[n].b /\ HoleLines[m].b = HoleLines[n].a)

(* the other end of the dead-end line that ends at dead-end p *)
OtherEnd(p) ==
    CHOOSE c \in GridPoints :
        \E i \in DOMAIN hl.gdf : {hl.gdf[i].a, hl.gdf[i].b} = {p, c}

(* C20: a synthetic edge p -> q is added only if the angle between the    *)
(* direction of the dead-end line (p_other -> p) and the direction of the *)
(* new line (p -> q) is at most max_angle; with max_angle = 0 the new     *)
(* line continues in exactly the direction of the dead-end line (a line   *)
(* going back in the opposite direction is rejected), and with            *)
(* max_angle = 180 every direction is accepted.                           *)
C20_AngleAtMostMaxAngle ==
    hl.phase = "out" =>
        \A n \in DOMAIN HoleLines :
            AngleAtMost(get_angle(OtherEnd(HoleLines[n].a), HoleLines[n].a),
                        get_angle(HoleLines[n].a, HoleLines[n].b), hl.max_angle)


(* ---------------------------------------------------------------------- *)
(* Closing holes between dead-ends on its own: any small table of lines   *)
(* on a road axis and any max_distance                                    *)
(* ---------------------------------------------------------------------- *)
MaxCoord == 5

AxisLines ==
    {r \in {Row(a, b, Num(1000), Num(1000)) : a \in 0..MaxCoord, b \in 0..MaxCoord} :
        r.a # r.b}

AxisTables == UNION {[1..n -> AxisLines] : n \in 1..MaxLines}

AxisDistances == {1, 2, 3}

InitDeadends ==
    /\ EngineIdle
    /\ pc = NoPc
    /\ vw = NoVw
    /\ od = NoOd
    /\ rt = NoRt
    /\ \E gdf \in AxisTables, max_distance \in AxisDistances :
          hl = [phase |-> "in", gdf |-> gdf, max_distance |-> max_distance,
                near |-> <<>>, res |-> <<>>]

CloseNetworkHolesToDeadends ==
    /\ hl.phase = "in"
    /\ \E ties \in {{c \in Deadends(hl.gdf) :
                       Cardinality(NearestDeadends(hl.gdf, c)) > 1}} :
       \E hi \in SUBSET ties :
       \E near \in {NearChoice(hl.gdf, hi)} :
          hl' = [hl EXCEPT !.phase = "out", !.near = near,
                           !.res = close_network_holes_to_deadends(hl.gdf,
                                       hl.max_distance, near)]
    /\ UNCHANGED EngineVars
    /\ UNCHANGED <<vw, od, rt, pc>>

NextDeadends == CloseNetworkHolesToDeadends

SpecDeadends == InitDeadends /\ [][NextDeadends]_vars

(* the rows close_network_holes_to_deadends has added *)
AddedRows == SubSeq(hl.res, Len(hl.gdf) + 1, Len(hl.res))

(* C21: close_network_holes_to_deadends adds edges only between two       *)
(* dead-ends, and it adds the edge from a dead-end to its nearest other   *)
(* dead-end exactly when their distance is no greater than max_distance   *)
(* (a gap of exactly max_distance is closed).                             *)
C21_ClosesGapsUpToMaxDistance ==
    hl.phase = "out" =>
        /\ \A n \in DOMAIN AddedRows :
              /\ AddedRows[n].a \in Deadends(hl.gdf)
              /\ AddedRows[n].b \in Deadends(hl.gdf) \ {AddedRows[n].a}
        /\ \A c \in Deadends(hl.gdf) :
              Cardinality(Deadends(hl.gdf)) > 1 =>
                  ((\E n \in DOMAIN AddedRows :
                        AddedRows[n].a = c /\ AddedRows[n].b = hl.near[c])
                   <=> Abs(hl.near[c] - c) <= hl.max_distance)


(* ---------------------------------------------------------------------- *)
(* Rule conflicts and the engine                                          *)
(* ---------------------------------------------------------------------- *)

(* the rule set of the last query sets nodedist_multiplier with a minutes *)
(* weight, or nodedist_kmh with a meters weight                           *)
RuleConflict ==
    \/ HasMinut(rules.weight) /\ Truthy(rules.nodedist_multiplier)
    \/ HasMeter(rules.weight) /\ Truthy(rules.nodedist_kmh)

(* C22: a query whose rules set nodedist_multiplier while the weight is   *)
(* minutes, or nodedist_kmh while the weight is meters, fails with an     *)
(* error in weight validation and compiles no graph.                      *)
C22_RuleConflictFails ==
    (lastQ.fresh /\ RuleConflict) =>
        /\ lastQ.outcome = "ValueError"
        /\ ~lastQ.rebuilt
        /\ lastQ.handed = <<>>

C22_Witness ==
    /\ lastQ.fresh /\ RuleConflict
    /\ lastQ.outcome = "ValueError" /\ ~lastQ.rebuilt


(* ---------------------------------------------------------------------- *)
(* The attachment window on its own: one point at coordinate 0 and any    *)
(* small table of nodes at the distances the docstring of                 *)
(* NetworkAnalysisRules speaks of                                         *)
(* ---------------------------------------------------------------------- *)
MaxNodes == 3

NodeCoords == {1, 2, 11, 12, 100, 120, 121, 250, 251}

NodeTables ==
    {SortedSeq(S) : S \in {T \in SUBSET NodeCoords : T # {} /\ Cardinality(T) <= MaxNodes}}

WindowTolerances == {5, 250}

WindowFactors == {0, 10}

InitWindow ==
    /\ EngineIdle
    /\ vw = NoVw
    /\ od = NoOd
    /\ rt = NoRt
    /\ hl = NoHl
    /\ \E nodes \in NodeTables, tol \in WindowTolerances, f \in WindowFactors :
          pc = [phase |-> "in", nodes |-> nodes, isStart |-> FALSE,
                rules |-> Rules("meters", tol, f, FALSE, None, None),
                points |-> Points(<<0>>, SetMax(NodeIds(nodes)) + 1),
                res |-> <<>>]

(* startpoints.get_edges_and_weights / endpoints.get_edges_and_weights *)
PointEdges ==
    /\ pc.phase = "in"
    /\ \E isStart \in BOOLEAN :
          pc' = [pc EXCEPT !.phase = "out", !.isStart = isStart,
                           !.res = point_edges(pc.points, pc.nodes, pc.rules, isStart)]
    /\ UNCHANGED EngineVars
    /\ UNCHANGED <<vw, od, rt, hl>>

NextWindow == PointEdges

SpecWindow == InitWindow /\ [][NextWindow]_vars

(* the point has a connector edge with the node at coordinate c *)
Connected(c) ==
    \E n \in DOMAIN pc.res, j \in DOMAIN pc.nodes :
        /\ pc.nodes[j] = c
        /\ IF pc.isStart
           THEN pc.res[n].s = pc.points.ids[1] /\ pc.res[n].t = j - 1
           ELSE pc.res[n].t = pc.points.ids[1] /\ pc.res[n].s = j - 1

(* C24: a node n gets a connector edge to the point p if and only if      *)
(* dist(p, n) <= search_tolerance and                                     *)
(* dist(p, n) <= d * (1 + search_factor / 100) + search_factor, d the     *)
(* distance from p to its nearest node; with search_factor = 10 a nearest *)
(* node at 1 admits the nodes within 11.1 and a nearest node at 100       *)
(* admits the nodes within 120.                                           *)
C24_ConnectorWindow ==
    pc.phase = "out" =>
        LET d == pc.nodes[1]
            f == pc.rules.search_factor
        IN /\ \A j \in DOMAIN pc.nodes :
                 Connected(pc.nodes[j]) <=>
                     /\ pc.nodes[j] <= pc.rules.search_tolerance
                     /\ 100 * pc.nodes[j] <= d * (100 + f) + 100 * f
           /\ (f = 10 /\ pc.rules.search_tolerance = 250 /\ d = 1) =>
                 \A j \in DOMAIN pc.nodes :
                     Connected(pc.nodes[j]) <=> pc.nodes[j] <= 11
           /\ (f = 10 /\ pc.rules.search_tolerance = 250 /\ d = 100) =>
                 \A j \in DOMAIN pc.nodes :
                     Connected(pc.nodes[j]) <=> pc.nodes[j] <= 120

C24_Witness ==
    /\ pc.phase = "out" /\ pc.rules.search_factor = 10
    /\ pc.rules.search_tolerance = 250
    /\ pc.nodes = <<1, 11, 12>>
    /\ Connected(11) /\ ~Connected(12)


(* ---------------------------------------------------------------------- *)
(* Connector edges in a route                                             *)
(* ---------------------------------------------------------------------- *)

(* the temporary ids of the query points *)
TempIds ==
    {OriginNodes[i].p : i \in DOMAIN OriginNodes}
        \cup {DestinationNodes[i].p : i \in DOMAIN DestinationNodes}

(* edge e of the compiled graph has an endpoint in the temporary id range *)
IsConnector(e) == rt.E[e].s \in TempIds \/ rt.E[e].t \in TempIds

(* the ids of the network edges of a path, in path order *)
NetworkIdsOf(path) ==
    LET net == SelectSeq(path, LAMBDA e : ~IsConnector(e))
    IN [n \in DOMAIN net |-> rt.E[net[n]].source_target_weight]

(* C25: the route get_route keeps for a pair consists of exactly the      *)
(* network edges on the shortest path: every connector edge is removed    *)
(* and no network edge is removed, whatever the edge weights.             *)
C25_RouteIsNetworkEdges ==
    RouteDone("get_route") =>
        \A i \in DOMAIN rt.od_pairs :
            rt.routes[i] # <<>> =>
                create_line_id_df(rt.E, rt.routes[i]) = NetworkIdsOf(rt.routes[i])


(* ---------------------------------------------------------------------- *)
(* Which dead-ends get a new line                                         *)
(* ---------------------------------------------------------------------- *)

(* the dead-end rows of the network handed to close_network_holes *)
HoleDeadends == DeadendRows(drop_duplicates_sorted(WithNodeCounts(hl.gdf)))

(* the nodes that pass the condition of the loop for dead-end row d *)
EligibleNeighbours(d) ==
    {q \in EndpointSet(hl.gdf) \ {d.wkt} :
        condition(d, q, hl.max_distance, hl.max_angle)}

(* C26: every dead-end with at least one eligible neighbour (a node other *)
(* than itself and than the other end of its line, within max_distance    *)
(* and max_angle) gets a synthetic edge, and the edge goes to its nearest  *)
(* eligible neighbour, for any number of dead-ends, including one.         *)
C26_EligibleDeadendsGetEdge ==
    hl.phase = "out" =>
        \A n \in DOMAIN HoleDeadends :
            EligibleNeighbours(HoleDeadends[n]) # {} =>
                \E m \in DOMAIN HoleLines :
                    /\ HoleLines[m].a = HoleDeadends[n].wkt
                    /\ HoleLines[m].b \in EligibleNeighbours(HoleDeadends[n])
                    /\ \A q \in EligibleNeighbours(HoleDeadends[n]) :
                          Dist2(HoleDeadends[n].wkt, HoleLines[m].b)
                              <= Dist2(HoleDeadends[n].wkt, q)


(* ---------------------------------------------------------------------- *)
(* The cache check across query methods                                   *)
(* ---------------------------------------------------------------------- *)

(* C27: for any sequence of od_cost_matrix, shortest_path and             *)
(* service_area calls, the cache check of prepare_network_analysis        *)
(* completes without raising; a call with destinations made right after   *)
(* a service_area call with the same origins runs normally.               *)
C27_CacheCheckNeverRaises ==
    lastQ.outcome # "KeyError"

(* the graph a completed query leaves behind, as edge list: what          *)
(* get_edges_and_weights gives for the points of that query               *)
OwnEdges == get_edges_and_weights(network, rules, startpoints, endpoints)

(* C28: the compiled graph a query runs on consists of the base network   *)
(* edges plus the connector edges of that query's own origins and         *)
(* destinations only; it never holds connector edges of the points of an  *)
(* earlier query.                                                         *)
C28_GraphHasOwnConnectorsOnly ==
    (lastQ.fresh /\ lastQ.outcome = "ok") => graph.edges = OwnEdges


(* ---------------------------------------------------------------------- *)
(* The graph handed to get_k_routes                                       *)
(* ---------------------------------------------------------------------- *)

(* C29: get_k_routes leaves the compiled graph unchanged: edges are       *)
(* deleted only from a per-pair working copy, so afterwards the graph has *)
(* the edges it had before, and each pair starts from the full graph.     *)
C29_KRoutesKeepGraph ==
    RouteDone("get_k_routes") =>
        /\ rt.live = DOMAIN rt.E
        /\ \A i \in DOMAIN rt.loops : rt.loops[i][1].before = DOMAIN rt.E

(* a call with two pairs where the working copy of the first pair lost an *)
(* edge                                                                   *)
C29_Witness ==
    /\ RouteDone("get_k_routes")
    /\ Len(rt.od_pairs) > 1
    /\ rt.loops[1][Len(rt.loops[1])].after # DOMAIN rt.E
    /\ rt.live = DOMAIN rt.E
    /\ rt.loops[2][1].before = DOMAIN rt.E


(* ---------------------------------------------------------------------- *)
(* Calls where no pair has a path                                         *)
(* ---------------------------------------------------------------------- *)

(* no pair of the finished call has a path *)
NoPairHasPath ==
    /\ rt.phase = "out"
    /\ \A i \in DOMAIN rt.od_pairs :
          ShortestPaths(rt.E, DOMAIN rt.E, rt.od_pairs[i][1], rt.od_pairs[i][2]) = {}

(* C30: when no pair of a get_route_frequencies call has a path, the call *)
(* does not raise and returns an empty result.                            *)
C30_NoPathFrequenciesEmpty ==
    (rt.phase = "out" /\ rt.op = "get_route_frequencies" /\ NoPairHasPath) =>
        /\ rt.res.raises = ""
        /\ rt.res.rows = <<>>

====
